---- MODULE Spec2Model ----
(***************************************************************************)
(* A model of the YouTube downloader web service: src/app.py (pytubefix    *)
(* variant) and src/production.py (yt-dlp variant).                        *)
(*                                                                         *)
(* Strings of the program are sequences of one-character strings, so that  *)
(* the regular expressions, split(), urlparse() and parse_qs() of the      *)
(* source act on characters as they do in Python.                          *)
(***************************************************************************)
EXTENDS Integers, Sequences, FiniteSets, TLC

VARIABLES
    variant,    \* which module is deployed: "app" or "production"
    pc,         \* get_video_info: each request thread's position
    req,        \* get_video_info: the request a thread is handling
    video_id,   \* get_video_info: extract_video_id's result for the request
    answer,     \* get_video_info: the collaborator's answer to the request (history)
    pending,    \* get_video_info: the video_info being cached
    resp,       \* get_video_info: the response a thread produced
    trace,      \* get_video_info: what a thread did for its request (history)
    files,      \* CACHE_DIR: cache key -> the file's content
    stored,     \* cache key -> the arguments of the last cache_info that completed (history)
    world,      \* the answers the collaborator can give in this run
    now,        \* time.time()
    ticks,      \* number of clock advances so far
    dl_pc,      \* download: the request's position
    dl_req,     \* download: the request being handled
    dl_resp,    \* download: the response produced
    dl_trace,   \* download: what the handler did for its request (history)
    temp_dirs,  \* the temporary directories that exist on disk
    made_dirs,  \* number of temporary directories created so far
    dl_seen     \* download: the conditions met and the responses they got (history)

vars == <<variant, pc, req, video_id, answer, pending, resp, trace, files, stored, world,
          now, ticks, dl_pc, dl_req, dl_resp, dl_trace, temp_dirs, made_dirs, dl_seen>>

info_vars == <<pc, req, video_id, answer, pending, resp, trace, files, stored, now, ticks>>
dl_vars == <<dl_pc, dl_req, dl_resp, dl_trace, temp_dirs, made_dirs, dl_seen>>

(***************************************************************************)
(* Characters                                                              *)
(***************************************************************************)
UpperLetters == <<"A","B","C","D","E","F","G","H","I","J","K","L","M",
                  "N","O","P","Q","R","S","T","U","V","W","X","Y","Z">>
LowerLetters == <<"a","b","c","d","e","f","g","h","i","j","k","l","m",
                  "n","o","p","q","r","s","t","u","v","w","x","y","z">>
Digits == {"0","1","2","3","4","5","6","7","8","9"}
Letters == {UpperLetters[i] : i \in 1..26} \cup {LowerLetters[i] : i \in 1..26}

\* Python's None, as a value no character sequence equals.
None == <<"None">>

\* re.IGNORECASE compares characters up to case.
ToLower == [c \in {UpperLetters[i] : i \in 1..26} |->
                LowerLetters[CHOOSE i \in 1..26 : UpperLetters[i] = c]]
Lower(c) == IF c \in DOMAIN ToLower THEN ToLower[c] ELSE c

\* \s of the re module (ASCII part).
Whitespace == {" ", "\t", "\n", "\r", "\f"}

\* \w of the re module (ASCII part).
WordChars == Letters \cup Digits \cup {"_"}
WordChar(c) == c \in WordChars

\* The literal lit occurs in s at position i.
StartsAt(s, i, lit) ==
    /\ i >= 1
    /\ i + Len(lit) - 1 <= Len(s)
    /\ \A k \in 1..Len(lit) : s[i + k - 1] = lit[k]

\* The same, up to case (re.IGNORECASE).
StartsAtCI(s, i, lit) ==
    /\ i >= 1
    /\ i + Len(lit) - 1 <= Len(s)
    /\ \A k \in 1..Len(lit) : Lower(s[i + k - 1]) = Lower(lit[k])

\* The positions after one of the literals lits matched (up to case) at a
\* position of P.
AfterAny(s, P, lits) ==
    {pl[1] + Len(pl[2]) : pl \in {x \in P \X lits : StartsAtCI(s, x[1], x[2])}}

\* `lit in s` of Python.
Contains(s, lit) == \E i \in 1..(Len(s) - Len(lit) + 1) : StartsAt(s, i, lit)

\* s.split(c)[-1]: what follows the last c (all of s when there is none).
AfterLast(s, c) ==
    LET at == {i \in 1..Len(s) : s[i] = c}
    IN  IF at = {} THEN s
        ELSE SubSeq(s, (CHOOSE i \in at : \A j \in at : j <= i) + 1, Len(s))

\* s.split(c, 1)[0]: what precedes the first c (all of s when there is none).
BeforeFirst(s, c) ==
    LET at == {i \in 1..Len(s) : s[i] = c}
    IN  IF at = {} THEN s
        ELSE SubSeq(s, 1, (CHOOSE i \in at : \A j \in at : i <= j) - 1)

\* s.split(c, 1)[1]: what follows the first c (s has one).
AfterFirst(s, c) ==
    LET at == {i \in 1..Len(s) : s[i] = c}
    IN  SubSeq(s, (CHOOSE i \in at : \A j \in at : i <= j) + 1, Len(s))

\* s.split(c): the pieces of s between the occurrences of c.
RECURSIVE Split(_, _)
Split(s, c) ==
    IF \E i \in 1..Len(s) : s[i] = c
    THEN <<BeforeFirst(s, c)>> \o Split(AfterFirst(s, c), c)
    ELSE <<s>>

\* s.strip(): leading and trailing whitespace removed.
Strip(s) ==
    LET keep == {i \in 1..Len(s) : s[i] \notin Whitespace}
    IN  IF keep = {} THEN <<>>
        ELSE SubSeq(s, CHOOSE i \in keep : \A j \in keep : i <= j,
                       CHOOSE i \in keep : \A j \in keep : j <= i)

(***************************************************************************)
(* Literals of the source                                                  *)
(***************************************************************************)
L_slashes == <<"/","/">>
L_http == <<"h","t","t","p",":","/","/">>
L_https == <<"h","t","t","p","s",":","/","/">>
L_www == <<"w","w","w",".">>
L_m == <<"m",".">>
L_youtube_com == <<"y","o","u","t","u","b","e",".","c","o","m">>
L_youtu_be == <<"y","o","u","t","u",".","b","e">>
L_nocookie == <<"y","o","u","t","u","b","e","-","n","o","c","o","o","k","i","e",".","c","o","m">>
L_v == <<"/","v","/">>
L_embed == <<"/","e","m","b","e","d","/">>
L_shorts == <<"/","s","h","o","r","t","s","/">>
L_watch_v == <<"/","w","a","t","c","h","?","v","=">>
L_watch_q == <<"/","w","a","t","c","h","?">>
L_amp_v == <<"&","v","=">>
L_youtu_be_slash == <<"y","o","u","t","u",".","b","e","/">>
L_youtube_com_slash == <<"y","o","u","t","u","b","e",".","c","o","m","/">>
L_embed2 == <<"e","m","b","e","d","/">>
L_v2 == <<"v","/">>
L_watch_v2 == <<"w","a","t","c","h","?","v","=">>
L_watch_q2 == <<"w","a","t","c","h","?">>
L_embed_word == <<"e","m","b","e","d">>
L_clean == <<"h","t","t","p","s",":","/","/","w","w","w",".","y","o","u","t","u","b","e",".","c","o","m","/","w","a","t","c","h","?","v","=">>

(***************************************************************************)
(* is_valid_youtube_url                                                    *)
(***************************************************************************)
\* [^#\&\?\n\s]
NotIdChars1 == {"#", "&", "?", "\n"} \cup Whitespace
IdChar1(c) == c \notin NotIdChars1

\* [\w-]
IdChar2(c) == WordChar(c) \/ c = "-"

\* n characters of the class from position p on.
Run(s, p, n, Class(_)) ==
    /\ p >= 1
    /\ p + n - 1 <= Len(s)
    /\ \A k \in 0..(n - 1) : Class(s[p + k])

\* `.*` or `.+` (at least `least` characters, none a newline) from position p
\* on, followed by the literal lit: the positions after lit.
AfterDots(s, p, least, lit) ==
    {q + Len(lit) : q \in {q \in (p + least)..Len(s) :
        /\ StartsAtCI(s, q, lit)
        /\ \A k \in p..(q - 1) : s[k] # "\n"}}

\* (\/.*[\?&]v=|\/v\/|\/embed\/|\/shorts\/|\/watch\?v=|\/watch\?.+&v=)
Separator1(s, P) ==
    AfterAny(s, P, {L_v, L_embed, L_shorts, L_watch_v})
    \cup UNION {AfterDots(s, p, 0, <<"?","v","=">>) \cup AfterDots(s, p, 0, L_amp_v)
                : p \in AfterAny(s, P, {<<"/">>})}
    \cup UNION {AfterDots(s, p, 1, L_amp_v) : p \in AfterAny(s, P, {L_watch_q})}

\* youtube_regex, applied with re.match (anchored at the start only).
youtube_regex(s) ==
    LET p1 == {1} \cup AfterAny(s, {1}, {L_slashes, L_http, L_https})
        p2 == p1 \cup AfterAny(s, p1, {L_www, L_m})
        p3 == AfterAny(s, p2, {L_youtube_com, L_youtu_be, L_nocookie})
        p4 == Separator1(s, p3)
    IN  \E p \in p4 : Run(s, p, 11, IdChar1)

\* (\S*)$ from position p on: non-whitespace up to the end of the string, or
\* up to a newline that ends it.
TailToEnd(s, p) ==
    \/ \A k \in p..Len(s) : s[k] \notin Whitespace
    \/ /\ Len(s) >= p
       /\ s[Len(s)] = "\n"
       /\ \A k \in p..(Len(s) - 1) : s[k] \notin Whitespace

\* youtu_be_regex, applied with re.match.
youtu_be_regex(s) ==
    LET p1 == {1} \cup AfterAny(s, {1}, {L_http, L_https})
        p2 == p1 \cup AfterAny(s, p1, {L_www})
        pc0 == AfterAny(s, p2, {L_youtube_com_slash})
        p3 == AfterAny(s, p2, {L_youtu_be_slash})
              \cup AfterAny(s, pc0, {L_embed2, L_v2, L_watch_v2})
              \cup UNION {AfterDots(s, p, 1, L_amp_v)
                          : p \in AfterAny(s, pc0, {L_watch_q2})}
    IN  \E p \in p3 : Run(s, p, 11, IdChar2) /\ TailToEnd(s, p + 11)

is_valid_youtube_url(url) ==
    IF ~youtube_regex(url) THEN youtu_be_regex(url) ELSE TRUE

(***************************************************************************)
(* extract_video_id                                                        *)
(***************************************************************************)
\* The characters a URL scheme is made of (urllib.parse.scheme_chars).
SchemeChars == Letters \cup Digits \cup {"+", "-", "."}
SchemeChar(c) == c \in SchemeChars

\* urlparse(url), as urllib.parse.urlsplit computes it: leading blanks and
\* the characters \t \r \n are dropped; a scheme is what precedes the first
\* colon when it begins with a letter and holds scheme characters only; a
\* network location follows a leading "//" up to the first of / ? #; the
\* fragment follows the first #, the query the first ?.  The inputs hold no
\* ";" (path parameters) and no "[" or "]" (the only case that raises).
First(S) == CHOOSE i \in S : \A j \in S : i <= j

\* url.lstrip(...) and the removal of \t \r \n.
url_cleaned(url) ==
    LET lead == {i \in 1..Len(url) : url[i] \notin Whitespace}
    IN  IF lead = {} THEN <<>>
        ELSE SelectSeq(SubSeq(url, First(lead), Len(url)),
                       LAMBDA c : c \notin {"\t", "\r", "\n"})

\* The length of the scheme and its colon, 0 when the URL has no scheme.
scheme_length(u) ==
    LET colon == {i \in 1..Len(u) : u[i] = ":"}
    IN  IF colon = {} THEN 0
        ELSE IF /\ First(colon) > 1
                /\ u[1] \in Letters
                /\ \A k \in 1..(First(colon) - 1) : SchemeChar(u[k])
        THEN First(colon)
        ELSE 0

\* _splitnetloc(url, 2): the position of the first of / ? # from the third
\* character on, one past the end when there is none.
netloc_end(u) ==
    LET delims == {i \in 3..Len(u) : u[i] \in {"/", "?", "#"}}
    IN  IF delims = {} THEN Len(u) + 1 ELSE First(delims)

\* The network location and the rest of a URL whose scheme has been removed.
split_netloc(u) ==
    IF StartsAt(u, 1, L_slashes)
    THEN [netloc |-> SubSeq(u, 3, netloc_end(u) - 1),
          rest |-> SubSeq(u, netloc_end(u), Len(u))]
    ELSE [netloc |-> <<>>, rest |-> u]

\* The path and the query of what follows the network location.
split_query(rest) ==
    [path |-> BeforeFirst(BeforeFirst(rest, "#"), "?"),
     query |-> IF \E i \in 1..Len(BeforeFirst(rest, "#")) : BeforeFirst(rest, "#")[i] = "?"
               THEN AfterFirst(BeforeFirst(rest, "#"), "?") ELSE <<>>]

parts(scheme, nl, pq) ==
    [scheme |-> scheme, netloc |-> nl.netloc, path |-> pq.path, query |-> pq.query]

after_scheme(u, n) ==
    parts([k \in 1..(n - 1) |-> Lower(u[k])],
          split_netloc(SubSeq(u, n + 1, Len(u))),
          split_query(split_netloc(SubSeq(u, n + 1, Len(u))).rest))

urlparse(url) == after_scheme(url_cleaned(url), scheme_length(url_cleaned(url)))

\* The replace('+', ' ') of parse_qsl; the inputs hold no "%" escapes for its
\* unquote to decode.
PlusToSpace(s) == [i \in 1..Len(s) |-> IF s[i] = "+" THEN " " ELSE s[i]]

\* parse_qs(query)[name], or <<>> when name is not a key: the fields are
\* split at "&"; a field with no "=" or with an empty value is dropped.
parse_qs(query, name) ==
    LET fields == Split(query, "&")
        Kept(f) == /\ \E i \in 1..Len(f) : f[i] = "="
                   /\ AfterFirst(f, "=") # <<>>
                   /\ PlusToSpace(BeforeFirst(f, "=")) = name
        kept == SelectSeq(fields, Kept)
    IN  [i \in 1..Len(kept) |-> PlusToSpace(AfterFirst(kept[i], "="))]

\* [0-9A-Za-z_-]
IdChars3 == Letters \cup Digits \cup {"_", "-"}
IdChar3(c) == c \in IdChars3

\* re.search(r'[0-9A-Za-z_-]{11}', url): the leftmost match, or None.
search_id(url) ==
    LET at == {i \in 1..Len(url) : Run(url, i, 11, IdChar3)}
    IN  IF at = {} THEN None
        ELSE LET i == CHOOSE i \in at : \A j \in at : i <= j
             IN  SubSeq(url, i, i + 10)

\* The branches of extract_video_id, given urlparse(url) and the values of
\* the query parameter v.
extract_from(url, parsed, v, path_segments) ==
    IF Contains(url, L_youtu_be)
    THEN BeforeFirst(AfterLast(url, "/"), "?")
    ELSE IF Contains(parsed.netloc, L_youtube_com) /\ v # <<>> THEN v[1]
    ELSE IF Contains(parsed.netloc, L_youtube_com)
            /\ Contains(parsed.path, L_embed_word)
    THEN AfterLast(parsed.path, "/")
    ELSE IF path_segments # <<>> /\ Len(path_segments[Len(path_segments)]) = 11
    THEN path_segments[Len(path_segments)]
    ELSE search_id(url)

path_segments_of(path) == SelectSeq(Split(path, "/"), LAMBDA x : x # <<>>)

extract_parsed(url, parsed) ==
    extract_from(url, parsed, parse_qs(parsed.query, <<"v">>),
                 path_segments_of(parsed.path))

extract_video_id(url) == extract_parsed(url, urlparse(url))

(***************************************************************************)
(* The formats of a video_info                                             *)
(*                                                                         *)
(* A raw format is what the collaborator reports of one stream:            *)
(*   vcodec, acodec  "none" when the stream has no video / no audio        *)
(*   ext             the container                                         *)
(*   height          0 for None                                            *)
(*   format_id       the itag                                              *)
(*   abr             audio bitrate in kbps, 0 for None                     *)
(*   filesize        bytes, 0 for None                                     *)
(***************************************************************************)
\* None where an integer is expected.
NoneInt == -1

quality_priorities == <<"1080p", "720p", "480p", "360p", "240p">>

\* f"{height}p" / stream.resolution, for the heights of the model.
ResolutionLabel(h) ==
    CASE h = 1080 -> "1080p" [] h = 720 -> "720p" [] h = 480 -> "480p"
      [] h = 360 -> "360p" [] h = 240 -> "240p" [] h = 144 -> "144p"
      [] OTHER -> "?p"

\* f"MP3 {int(abr)}kbps" / f"MP3 {abr}", for the bitrates of the model.
AudioLabel(abr) ==
    CASE abr = 0 -> "MP3" [] abr = 48 -> "MP3 48kbps"
      [] abr = 128 -> "MP3 128kbps" [] abr = 160 -> "MP3 160kbps"
      [] OTHER -> "MP3 ?kbps"

\* round(filesize / (1024 * 1024), 1) in tenths of a megabyte, None when the
\* size is unknown.
FilesizeMb(filesize) ==
    IF filesize > 0 THEN (filesize * 10 + 524288) \div 1048576 ELSE NoneInt

\* quality_priorities.index(q) if q in quality_priorities else 99
PriorityKey(q) ==
    IF \E i \in 1..Len(quality_priorities) : quality_priorities[i] = q
    THEN (CHOOSE i \in 1..Len(quality_priorities) : quality_priorities[i] = q) - 1
    ELSE 99

\* list.sort / sorted: a stable sort of <<key, element>> pairs by key.
RECURSIVE StableSort(_)
StableSort(pairs) ==
    IF pairs = <<>> THEN <<>>
    ELSE LET rest == StableSort(Tail(pairs))
             x == Head(pairs)
             below == {i \in 1..Len(rest) : rest[i][1] < x[1]}
             n == Cardinality(below)
         IN  SubSeq(rest, 1, n) \o <<x>> \o SubSeq(rest, n + 1, Len(rest))

Reverse(s) == [i \in 1..Len(s) |-> s[Len(s) + 1 - i]]

Elements(pairs) == [i \in 1..Len(pairs) |-> pairs[i][2]]

\* The sort of the formats left out.
SortByPriority_unsorted(formats) == formats

\* formats.sort(key=lambda x: quality_priorities.index(x['quality']) ...)
SortByPriority(formats) ==
    Elements(StableSort([i \in 1..Len(formats) |->
                            <<PriorityKey(formats[i].quality), formats[i]>>]))

VideoFormat(raw, mime) ==
    [type |-> "video", quality |-> ResolutionLabel(raw.height),
     mime_type |-> mime, itag |-> raw.format_id,
     filesize_mb |-> FilesizeMb(raw.filesize),
     format_id |-> raw.format_id, ext |-> "mp4"]

AudioFormat(raw, mime) ==
    [type |-> "audio", quality |-> AudioLabel(raw.abr),
     mime_type |-> mime, itag |-> raw.format_id,
     filesize_mb |-> FilesizeMb(raw.filesize),
     format_id |-> raw.format_id, ext |-> "mp4"]

\* The loop without the test for the label being in quality_priorities.
RECURSIVE KeepFirstPerLabel_any_label(_, _, _)
KeepFirstPerLabel_any_label(streams, seen_formats, mime) ==
    IF streams = <<>> THEN <<>>
    ELSE LET s == Head(streams)
             quality == ResolutionLabel(s.height)
         IN  IF quality \notin seen_formats
             THEN <<VideoFormat(s, mime[s.ext])>>
                  \o KeepFirstPerLabel_any_label(Tail(streams),
                                                 seen_formats \cup {quality}, mime)
             ELSE KeepFirstPerLabel_any_label(Tail(streams), seen_formats, mime)

\* The loop over the progressive streams: the first stream of each label of
\* quality_priorities is kept.
RECURSIVE KeepFirstPerLabel(_, _, _)
KeepFirstPerLabel(streams, seen_formats, mime) ==
    IF streams = <<>> THEN <<>>
    ELSE LET s == Head(streams)
             quality == ResolutionLabel(s.height)
         IN  IF /\ quality \notin seen_formats
                /\ \E i \in 1..Len(quality_priorities) : quality_priorities[i] = quality
             THEN <<VideoFormat(s, mime[s.ext])>>
                  \o KeepFirstPerLabel(Tail(streams), seen_formats \cup {quality}, mime)
             ELSE KeepFirstPerLabel(Tail(streams), seen_formats, mime)

\* stream.mime_type of pytubefix: the stream's type and container.
MimeVideo == [e \in {"mp4", "webm", "m4a"} |-> IF e = "webm" THEN "video/webm" ELSE "video/mp4"]
MimeAudio == [e \in {"mp4", "webm", "m4a"} |-> IF e = "webm" THEN "audio/webm" ELSE "audio/mp4"]
\* The constant mime types of production.py.
MimeVideoConst == [e \in {"mp4", "webm", "m4a"} |-> "video/mp4"]

\* app.py: the formats of the streams pytubefix reports.
\* streams.filter(progressive=True, file_extension='mp4') keeps the streams
\* with both tracks in an mp4; order_by(attr) keeps those whose attr is set and
\* sorts them (stably) by its number, desc() reverses the list; first() is
\* the head of the list.
formats_app(raw) ==
    LET progressive == SelectSeq(raw, LAMBDA s :
            s.vcodec # "none" /\ s.acodec # "none" /\ s.ext = "mp4" /\ s.height > 0)
        progressive_streams ==
            Reverse(Elements(StableSort(
                [i \in 1..Len(progressive) |-> <<progressive[i].height, progressive[i]>>])))
        only_audio == SelectSeq(raw, LAMBDA s :
            s.vcodec = "none" /\ s.acodec # "none" /\ s.abr > 0)
        audio_streams ==
            Reverse(Elements(StableSort(
                [i \in 1..Len(only_audio) |-> <<only_audio[i].abr, only_audio[i]>>])))
        video == SortByPriority(KeepFirstPerLabel(progressive_streams, {}, MimeVideo))
    IN  IF audio_streams # <<>>
        THEN video \o <<AudioFormat(Head(audio_streams), MimeAudio[Head(audio_streams).ext])>>
        ELSE video

\* production.py: the formats of info['formats'] as yt-dlp lists them; the
\* audio entry is the first audio-only mp4/m4a entry of the list.
formats_production(raw) ==
    LET combined == SelectSeq(raw, LAMBDA f :
            /\ f.vcodec # "none" /\ f.acodec # "none" /\ f.ext = "mp4"
            /\ f.height > 0 /\ f.format_id # "")
        audio == SelectSeq(raw, LAMBDA f :
            /\ f.vcodec = "none" /\ f.acodec # "none" /\ f.ext \in {"mp4", "m4a"}
            /\ f.format_id # "")
        video == SortByPriority(KeepFirstPerLabel(combined, {}, MimeVideoConst))
    IN  IF audio # <<>>
        THEN video \o <<AudioFormat(Head(audio), "audio/mp4")>>
        ELSE video

\* The formats list get_video_info builds from the collaborator's answer.
resolve_formats(v, raw) ==
    IF v = "app" THEN formats_app(raw) ELSE formats_production(raw)

(***************************************************************************)
(* json.dump and json.load on the cache file                               *)
(*                                                                         *)
(* A file holds the lexemes of a JSON text, punctuation (":" and ",") left *)
(* out: each is a record [k, s, n] with k one of "{" "}" "[" "]" "str"     *)
(* "num" "null", s the text of a string and n the value of a number.       *)
(***************************************************************************)
Tok(k) == [k |-> k, s |-> "", n |-> 0]
Str(s) == [k |-> "str", s |-> s, n |-> 0]
Num(n) == [k |-> "num", s |-> "", n |-> n]
\* filesize_mb: null, or a number with one decimal (n is in tenths).
NumOrNull(n) ==
    IF n = NoneInt THEN Tok("null") ELSE [k |-> "num", s |-> "tenths", n |-> n]

\* A format descriptor as a JSON object.
dump_format(f) ==
    <<Tok("{"), Str("type"), Str(f.type), Str("quality"), Str(f.quality),
      Str("mime_type"), Str(f.mime_type), Str("itag"), Str(f.itag),
      Str("filesize_mb"), NumOrNull(f.filesize_mb),
      Str("format_id"), Str(f.format_id), Str("ext"), Str(f.ext), Tok("}")>>

RECURSIVE dump_formats(_)
dump_formats(formats) ==
    IF formats = <<>> THEN <<>>
    ELSE dump_format(Head(formats)) \o dump_formats(Tail(formats))

\* A video_info as a JSON object.
dump_info(info) ==
    <<Tok("{"), Str("title"), Str(info.title), Str("thumbnail"), Str(info.thumbnail),
      Str("formats"), Tok("[")>> \o dump_formats(info.formats) \o <<Tok("]"), Tok("}")>>

\* json.dump({'info': info, 'timestamp': timestamp}, f)
json_dump(info, timestamp) ==
    <<Tok("{"), Str("info")>> \o dump_info(info)
        \o <<Str("timestamp"), Num(timestamp), Tok("}")>>

\* The number of decimal digits of n.
RECURSIVE Digits10(_)
Digits10(n) == IF n < 10 THEN 1 ELSE 1 + Digits10(n \div 10)

\* The length of a token's text: a string in its quotes, time.time() (whole
\* seconds in the model) as the float json.dump prints ("3600.0"), a size
\* with its one decimal ("9.1"); "junk" is what is left of an older, longer
\* text behind a newer one, n characters of it.
TokLen(tok) ==
    CASE tok.k = "str" -> Len(tok.s) + 2
      [] tok.k = "null" -> 4
      [] tok.k = "num" -> IF tok.s = "tenths" THEN Digits10(tok.n \div 10) + 2
                          ELSE Digits10(tok.n) + 2
      [] tok.k = "junk" -> tok.n
      [] OTHER -> 1

\* The length of the text json.dump writes: the tokens, and ", " or ": "
\* between two of them unless the first opens or the second closes a
\* container.
RECURSIVE TextLen(_)
TextLen(toks) ==
    IF toks = <<>> THEN 0
    ELSE TokLen(Head(toks)) + TextLen(Tail(toks))
         + (IF /\ Len(toks) > 1
               /\ toks[1].k \notin {"{", "["}
               /\ toks[2].k \notin {"}", "]", "junk"}
            THEN 2 ELSE 0)

\* The position after the JSON value that starts at position i, 0 when no
\* value starts there.
RECURSIVE ValueEnd(_, _), ArrayEnd(_, _), ObjectEnd(_, _)
ValueEnd(toks, i) ==
    IF i < 1 \/ i > Len(toks) THEN 0
    ELSE CASE toks[i].k \in {"str", "num", "null"} -> i + 1
           [] toks[i].k = "[" -> ArrayEnd(toks, i + 1)
           [] toks[i].k = "{" -> ObjectEnd(toks, i + 1)
           [] OTHER -> 0

\* The position after the "]" that closes the array whose next element, or
\* "]", is at position i.
ArrayEnd(toks, i) ==
    IF i < 1 \/ i > Len(toks) THEN 0
    ELSE IF toks[i].k = "]" THEN i + 1
    ELSE ArrayEnd(toks, ValueEnd(toks, i))

\* The same for an object, whose members are a string and a value.
ObjectEnd(toks, i) ==
    IF i < 1 \/ i > Len(toks) THEN 0
    ELSE IF toks[i].k = "}" THEN i + 1
    ELSE IF toks[i].k = "str" THEN ObjectEnd(toks, ValueEnd(toks, i + 1))
    ELSE 0

\* json.load succeeds when the file is one JSON value and nothing else.
json_valid(toks) == toks # <<>> /\ ValueEnd(toks, 1) = Len(toks) + 1

\* data[key] of the object whose next member, or "}", is at position i: the
\* position of the member's value, 0 when the object has no such key.
RECURSIVE Member(_, _, _)
Member(toks, i, key) ==
    IF i < 1 \/ i > Len(toks) \/ toks[i].k # "str" THEN 0
    ELSE IF toks[i].s = key THEN i + 1
    ELSE Member(toks, ValueEnd(toks, i + 1), key)

\* object[key] for the object at position at (0 when it is no object or has
\* no such key).
Lookup(toks, at, key) ==
    IF at >= 1 /\ at <= Len(toks) /\ toks[at].k = "{"
    THEN Member(toks, at + 1, key) ELSE 0

StrAt(toks, i) == IF i = 0 \/ toks[i].k # "str" THEN "" ELSE toks[i].s
IntAt(toks, i) == IF i = 0 \/ toks[i].k # "num" THEN NoneInt ELSE toks[i].n

\* The format descriptor json.load builds from the object at position at.
load_format(toks, at) ==
    [type |-> StrAt(toks, Lookup(toks, at, "type")),
     quality |-> StrAt(toks, Lookup(toks, at, "quality")),
     mime_type |-> StrAt(toks, Lookup(toks, at, "mime_type")),
     itag |-> StrAt(toks, Lookup(toks, at, "itag")),
     filesize_mb |-> IntAt(toks, Lookup(toks, at, "filesize_mb")),
     format_id |-> StrAt(toks, Lookup(toks, at, "format_id")),
     ext |-> StrAt(toks, Lookup(toks, at, "ext"))]

\* The list json.load builds from the array whose next element, or "]", is
\* at position i.
RECURSIVE load_formats(_, _)
load_formats(toks, i) ==
    IF i < 1 \/ i > Len(toks) \/ toks[i].k = "]" THEN <<>>
    ELSE <<load_format(toks, i)>> \o load_formats(toks, ValueEnd(toks, i))

\* The video_info json.load builds from the object at position at.
load_info(toks, at) ==
    [title |-> StrAt(toks, Lookup(toks, at, "title")),
     thumbnail |-> StrAt(toks, Lookup(toks, at, "thumbnail")),
     formats |-> LET a == Lookup(toks, at, "formats")
                 IN  IF a = 0 THEN <<>> ELSE load_formats(toks, a + 1)]

(***************************************************************************)
(* The cache store                                                         *)
(***************************************************************************)
CACHE_DURATION == 3600

\* hashlib.md5(url.encode()).hexdigest(): a key that distinct URLs do not
\* share (collisions of the hash are not modelled).
get_cache_key(url) == <<"md5">> \o url

NoInfo == [title |-> "", thumbnail |-> "", formats |-> <<>>]

\* The freshness test with the comparison turned around at the boundary.
is_fresh_inclusive(timestamp, time) == time - timestamp <= CACHE_DURATION

\* time.time() - data['timestamp'] < CACHE_DURATION
is_fresh(timestamp, time) == time - timestamp < CACHE_DURATION

\* A lookup that takes whatever json.load can make of the file.
get_cached_info_unchecked(fs, cache_key, time) ==
    IF cache_key \notin DOMAIN fs THEN [found |-> FALSE, info |-> NoInfo]
    ELSE [found |-> TRUE,
          info |-> load_info(fs[cache_key], Lookup(fs[cache_key], 1, "info"))]

\* get_cached_info(cache_key) on the cache directory fs at the given time:
\* found is FALSE for None.  A missing file, a file json.load rejects, a
\* document without the keys and an entry that is not fresh all give None.
get_cached_info(fs, cache_key, time) ==
    IF cache_key \notin DOMAIN fs THEN [found |-> FALSE, info |-> NoInfo]
    ELSE LET data == fs[cache_key]
             ts == Lookup(data, 1, "timestamp")
             at == Lookup(data, 1, "info")
         IN  IF /\ json_valid(data)
                /\ ts # 0
                /\ data[ts].k = "num"
                /\ is_fresh(data[ts].n, time)
                /\ at # 0
             THEN [found |-> TRUE, info |-> load_info(data, at)]
             ELSE [found |-> FALSE, info |-> NoInfo]

\* f.read() inside json.load(f) when another thread's step falls between
\* the reads it is made of: the first read returns the file as it is before
\* the step (an empty one is the end of the file), the next one what the
\* file holds beyond that after the step.
read_across(first, then) ==
    IF first # <<>> /\ TextLen(then) > TextLen(first)
    THEN first \o <<[k |-> "junk", s |-> "", n |-> TextLen(then) - TextLen(first)]>>
    ELSE first

WriteFile(fs, name, data) ==
    [x \in DOMAIN fs \cup {name} |-> IF x = name THEN data ELSE fs[x]]

\* An open that keeps the content of an existing file.
open_w_keep(fs, cache_key) ==
    IF cache_key \in DOMAIN fs THEN fs ELSE WriteFile(fs, cache_key, <<>>)

\* open(cache_file, 'w'): the file is created, or truncated to nothing.
open_w(fs, cache_key) == WriteFile(fs, cache_key, <<>>)

\* The write of the buffered text when the file is closed: the text goes to
\* the file from the handle's offset, 0, on, over what the file holds there;
\* what a longer file holds beyond the text stays, as junk behind it.
write_close(fs, cache_key, data) ==
    LET old == IF cache_key \in DOMAIN fs THEN fs[cache_key] ELSE <<>>
        left == TextLen(old) - TextLen(data)
    IN  WriteFile(fs, cache_key,
                  IF left > 0
                  THEN data \o <<[k |-> "junk", s |-> "", n |-> left]>>
                  ELSE data)

(***************************************************************************)
(* POST /get_video_info                                                    *)
(***************************************************************************)
Threads == {1, 2}

NoReq == [kind |-> "", url |-> <<>>, shape |-> "", vid |-> <<>>, recognized |-> FALSE]
NoResp == [status |-> 0, error |-> "", detail |-> "", body |-> NoInfo]

Reply(status, error, detail) ==
    [status |-> status, error |-> error, detail |-> detail, body |-> NoInfo]
Ok(info) == [status |-> 200, error |-> "", detail |-> "", body |-> info]

E_not_json == "Request must be JSON"
E_required == "URL is required"
E_empty == "URL cannot be empty"
E_invalid == "Invalid YouTube URL. Please enter a valid YouTube video URL."
E_no_id == "Could not extract video ID from URL"
E_no_formats == "No downloadable formats found. The video may have restrictions."
E_youtube == "Error accessing YouTube"
E_unexpected == "An unexpected error occurred"

\* clean_url = f'https://www.youtube.com/watch?v={video_id}'
clean_url(vid) == L_clean \o vid

\* The handler from its entry to the cache lookup (the request r arrives
\* with the cache directory fs at the given time): the response, or the
\* move on to the collaborator, with the events on the way.
\*   kind "not_json"    request.is_json is false
\*   kind "no_url"      the body is empty or has no 'url'
\*   kind "non_string"  data['url'] is no string: .strip() raises, and the
\*                      outermost handler answers 500
front(r, fs, time) ==
    LET url == Strip(r.url)
        vid == extract_video_id(url)
        cached == get_cached_info(fs, get_cache_key(clean_url(vid)), time)
        Done(rsp, events) ==
            [pc |-> "done", resp |-> rsp, video_id |-> None, trace |-> events]
    IN  IF r.kind = "not_json" THEN Done(Reply(400, E_not_json, ""), <<>>)
        ELSE IF r.kind = "no_url" THEN Done(Reply(400, E_required, ""), <<>>)
        ELSE IF r.kind = "non_string"
        THEN Done(Reply(500, E_unexpected, "no attribute 'strip'"), <<>>)
        ELSE IF url = <<>> THEN Done(Reply(400, E_empty, ""), <<>>)
        ELSE IF ~is_valid_youtube_url(url)
        THEN Done(Reply(400, E_invalid, ""), <<"validate">>)
        ELSE IF vid = None \/ vid = <<>> \/ Len(vid) # 11
        THEN [Done(Reply(400, E_no_id, ""), <<"validate", "extract">>)
                 EXCEPT !.video_id = vid]
        ELSE IF cached.found
        THEN [pc |-> "done", resp |-> Ok(cached.info), video_id |-> vid,
              trace |-> <<"validate", "extract", "lookup">>]
        ELSE [pc |-> "resolve", resp |-> NoResp, video_id |-> vid,
              trace |-> <<"validate", "extract", "lookup">>]

\* No answer of the collaborator (yet).
NoAnswer == [kind |-> "", msg |-> "", title |-> "", thumbnail |-> "", raw |-> <<>>]

\* The cache key of the request thread t is handling.
cache_key(t) == get_cache_key(clean_url(video_id[t]))

\* A request arrives and the handler runs up to its response or, on a cache
\* miss, up to the call of the collaborator.
Request(t, r) ==
    /\ pc[t] = "idle"
    /\ LET f == front(r, files, now)
       IN  /\ pc' = [pc EXCEPT ![t] = f.pc]
           /\ resp' = [resp EXCEPT ![t] = f.resp]
           /\ video_id' = [video_id EXCEPT ![t] = f.video_id]
           /\ trace' = [trace EXCEPT ![t] = f.trace]
    /\ req' = [req EXCEPT ![t] = r]
    /\ UNCHANGED <<variant, answer, pending, files, stored, world, now, ticks>>
    /\ UNCHANGED dl_vars

\* A resolution that caches whatever the filter leaves.
resolution_unchecked(v, o) ==
    IF o.kind # "ok" THEN "raise" ELSE "cache"

\* How the resolution ends for the collaborator's answer o: in the except
\* clause ("raise"), at `if not formats` ("no_formats"), or with the
\* video_info going to cache_info ("cache").
resolution(v, o) ==
    IF o.kind # "ok" THEN "raise"
    ELSE IF resolve_formats(v, o.raw) = <<>> THEN "no_formats"
    ELSE "cache"

\* The collaborator answers o: it raises (kind "raise"), returns None as
\* yt-dlp does under ignoreerrors (kind "none", production.py only, where
\* info.get then raises), or returns the video's title, thumbnail and raw
\* formats (kind "ok").
Resolve(t, o) ==
    /\ pc[t] = "resolve"
    /\ o.kind = "none" => variant = "production"
    /\ LET video_info == [title |-> o.title, thumbnail |-> o.thumbnail,
                          formats |-> resolve_formats(variant, o.raw)]
           end == resolution(variant, o)
       IN  IF end = "raise"
           THEN /\ resp' = [resp EXCEPT ![t] = Reply(400, E_youtube, o.msg)]
                /\ pc' = [pc EXCEPT ![t] = "done"]
                /\ UNCHANGED pending
           ELSE IF end = "no_formats"
           THEN /\ resp' = [resp EXCEPT ![t] = Reply(400, E_no_formats, "")]
                /\ pc' = [pc EXCEPT ![t] = "done"]
                /\ UNCHANGED pending
           ELSE /\ pending' = [pending EXCEPT ![t] = video_info]
                /\ pc' = [pc EXCEPT ![t] = "cache_open"]
                /\ UNCHANGED resp
    /\ trace' = [trace EXCEPT ![t] = Append(@, "collab")]
    /\ answer' = [answer EXCEPT ![t] = o]
    /\ UNCHANGED <<variant, req, video_id, files, stored, world, now, ticks>>
    /\ UNCHANGED dl_vars

\* cache_info opens the cache file for writing.
CacheOpen(t) ==
    /\ pc[t] = "cache_open"
    /\ files' = open_w(files, cache_key(t))
    /\ pc' = [pc EXCEPT ![t] = "cache_write"]
    /\ trace' = [trace EXCEPT ![t] = Append(@, "store")]
    /\ UNCHANGED <<variant, req, video_id, answer, pending, resp, stored, world, now, ticks>>
    /\ UNCHANGED dl_vars

\* cache_info dumps the entry, stamped with the current time, and closes the
\* file; the handler then answers with the video_info.
CacheWrite(t) ==
    /\ pc[t] = "cache_write"
    /\ files' = write_close(files, cache_key(t), json_dump(pending[t], now))
    /\ stored' = WriteFile(stored, cache_key(t),
                           [info |-> pending[t], timestamp |-> now])
    /\ resp' = [resp EXCEPT ![t] = Ok(pending[t])]
    /\ pc' = [pc EXCEPT ![t] = "done"]
    /\ UNCHANGED <<variant, req, video_id, answer, pending, trace, world, now, ticks>>
    /\ UNCHANGED dl_vars

\* The response is sent; the thread is free for the next request.
Finish(t) ==
    /\ pc[t] = "done"
    /\ pc' = [pc EXCEPT ![t] = "idle"]
    /\ req' = [req EXCEPT ![t] = NoReq]
    /\ resp' = [resp EXCEPT ![t] = NoResp]
    /\ video_id' = [video_id EXCEPT ![t] = None]
    /\ answer' = [answer EXCEPT ![t] = NoAnswer]
    /\ pending' = [pending EXCEPT ![t] = NoInfo]
    /\ trace' = [trace EXCEPT ![t] = <<>>]
    /\ UNCHANGED <<variant, files, stored, world, now, ticks>>
    /\ UNCHANGED dl_vars

\* Number of clock advances of a run.
MaxTicks == 3

\* Time passes.
Tick(d) ==
    /\ ticks < MaxTicks
    /\ now' = now + d
    /\ ticks' = ticks + 1
    /\ UNCHANGED <<variant, pc, req, video_id, answer, pending, resp, trace, files, stored, world>>
    /\ UNCHANGED dl_vars

(***************************************************************************)
(* Failures of the cache's I/O                                             *)
(***************************************************************************)
\* What the handler would answer if cache_info let the failure out: the
\* except clause around the resolution.
store_failure_propagates(info) == Reply(400, E_youtube, "Permission denied")

\* What the handler answers after cache_info failed: the bare `except: pass`
\* of cache_info ends the call, and the handler goes on to
\* `return jsonify(video_info)`.
store_failure(info) == Ok(info)

\* open(cache_file, 'w') raises in cache_info (no permission, the cache
\* directory is gone, ...): nothing is written.
CacheOpenFails(t) ==
    /\ pc[t] = "cache_open"
    /\ resp' = [resp EXCEPT ![t] = store_failure(pending[t])]
    /\ pc' = [pc EXCEPT ![t] = "done"]
    /\ trace' = [trace EXCEPT ![t] = Append(@, "store_failed")]
    /\ UNCHANGED <<variant, req, video_id, answer, pending, files, stored, world, now, ticks>>
    /\ UNCHANGED dl_vars

\* The write at the close of the file fails in cache_info (the disk is
\* full, ...) after the first n tokens of the text have reached the file.
CacheWriteFails(t, n) ==
    /\ pc[t] = "cache_write"
    /\ n < Len(json_dump(pending[t], now))
    /\ files' = write_close(files, cache_key(t),
                            SubSeq(json_dump(pending[t], now), 1, n))
    /\ resp' = [resp EXCEPT ![t] = store_failure(pending[t])]
    /\ pc' = [pc EXCEPT ![t] = "done"]
    /\ trace' = [trace EXCEPT ![t] = Append(@, "store_failed")]
    /\ UNCHANGED <<variant, req, video_id, answer, pending, stored, world, now, ticks>>
    /\ UNCHANGED dl_vars

\* The ways a cache file goes bad outside the program.
Damages ==
    {"removed", "truncated", "garbage", "unreadable", "no_keys", "list",
     "bad_timestamp"}

\* What get_cached_info meets in a file of content data after the damage d:
\*   truncated      half of the text
\*   garbage        no JSON at all
\*   unreadable     open(cache_file, 'r') raises
\*   no_keys        the JSON object {}: data['timestamp'] raises KeyError
\*   list           the JSON array []: data['timestamp'] raises TypeError
\*   bad_timestamp  the timestamp is a string: the subtraction raises
damaged(data, d) ==
    CASE d = "truncated" -> SubSeq(data, 1, Len(data) \div 2)
      [] d = "garbage" -> <<[k |-> "junk", s |-> "", n |-> 16]>>
      [] d = "unreadable" -> <<Tok("EACCES")>>
      [] d = "no_keys" -> <<Tok("{"), Tok("}")>>
      [] d = "list" -> <<Tok("["), Tok("]")>>
      [] OTHER -> [i \in 1..Len(data) |->
                      IF i = Lookup(data, 1, "timestamp") THEN Str("soon")
                      ELSE data[i]]

\* A cache file is damaged, or removed, behind the program's back.
Damage(cache_file, d) ==
    /\ cache_file \in DOMAIN files
    /\ files' = IF d = "removed"
                THEN [x \in DOMAIN files \ {cache_file} |-> files[x]]
                ELSE WriteFile(files, cache_file, damaged(files[cache_file], d))
    /\ files' # files
    /\ UNCHANGED <<variant, pc, req, video_id, answer, pending, resp, trace, stored, world, now, ticks>>
    /\ UNCHANGED dl_vars

(***************************************************************************)
(* GET /download                                                           *)
(***************************************************************************)
D_missing == "Missing URL or format ID parameter"
D_invalid == "Invalid YouTube URL"
D_stream == "Invalid format ID or stream not found"
D_nofile == "Download failed or file not found"
D_download == "Error downloading video"

NoDlReq == [url |-> None, itag |-> None]
NoDlResp == [status |-> 0, error |-> "", detail |-> "", mimetype |-> ""]
NoDlTrace == [dir |-> 0, collab |-> FALSE, condition |-> "", read |-> FALSE]

DlReply(status, error, detail) ==
    [status |-> status, error |-> error, detail |-> detail, mimetype |-> ""]

\* The itags for which the video has a stream.
AvailableItags == {<<"1","8">>}

\* int(itag) raises ValueError unless itag is a decimal number (surrounding
\* blanks and signs are not among the inputs).
IsInt(itag) == itag # <<>> /\ \A i \in 1..Len(itag) : itag[i] \in Digits

\* The MIME type by the file name's extension.
mime_type(ext) ==
    IF ext = "mp4" THEN "video/mp4"
    ELSE IF ext = "webm" THEN "video/webm"
    ELSE IF ext = "mp3" \/ ext = "m4a" THEN "audio/mp4"
    ELSE "application/octet-stream"

\* Number of temporary directories a run creates.
MaxDirs == 3

\* A condition and the response it got.
Seen(cond, r) ==
    [condition |-> cond, status |-> r.status, error |-> r.error, detail |-> r.detail]

\* A request arrives: the parameters are checked and the temporary
\* directory is made (tempfile.mkdtemp()).
DownloadStart(r) ==
    /\ dl_pc = "idle"
    /\ dl_req' = r
    /\ IF r.url = None \/ r.url = <<>> \/ r.itag = None \/ r.itag = <<>>
       THEN /\ dl_resp' = DlReply(400, D_missing, "")
            /\ dl_trace' = [NoDlTrace EXCEPT !.condition = "missing"]
            /\ dl_seen' = dl_seen \cup {Seen("missing", DlReply(400, D_missing, ""))}
            /\ dl_pc' = "done"
            /\ UNCHANGED <<temp_dirs, made_dirs>>
       ELSE IF ~is_valid_youtube_url(r.url)
       THEN /\ dl_resp' = DlReply(400, D_invalid, "")
            /\ dl_trace' = [NoDlTrace EXCEPT !.condition = "invalid_url"]
            /\ dl_seen' = dl_seen \cup {Seen("invalid_url", DlReply(400, D_invalid, ""))}
            /\ dl_pc' = "done"
            /\ UNCHANGED <<temp_dirs, made_dirs>>
       ELSE /\ made_dirs < MaxDirs
            /\ made_dirs' = made_dirs + 1
            /\ temp_dirs' = temp_dirs \cup {made_dirs + 1}
            /\ dl_trace' = [NoDlTrace EXCEPT !.dir = made_dirs + 1]
            /\ dl_pc' = "fetch"
            /\ UNCHANGED <<dl_resp, dl_seen>>
    /\ UNCHANGED <<variant, world>>
    /\ UNCHANGED info_vars

\* What went wrong with the download, if anything: the collaborator failed
\* (o.net = "fails"), the video has no format of the given identifier, or the
\* collaborator returned and left no file (o.net = "no_file").
condition(r, o) ==
    IF o.net = "fails" THEN "download_failure"
    ELSE IF ~IsInt(r.itag) THEN "invalid_identifier"
    ELSE IF r.itag \notin AvailableItags THEN "format_not_found"
    ELSE IF o.net = "no_file" THEN "file_missing"
    ELSE "ok"

\* The exits of the inner try block, by how the block is left:
\*   "raise"   an exception: the except clause removes the directory and the
\*             outer handler answers 500
\*   "stream"  app.py, `if not stream`: 400, returned from inside the block
\*   "nofile"  no downloaded file: 500, returned from inside the block
\*   "sent"    the file was read, the directory removed and the file sent
exit_app(r, o) ==
    IF o.net = "fails" THEN "raise"
    ELSE IF ~IsInt(r.itag) THEN "raise"
    ELSE IF r.itag \notin AvailableItags THEN "stream"
    ELSE IF o.net = "no_file" THEN "nofile"
    ELSE "sent"

\* production.py: yt-dlp either raises its error or, as ignoreerrors asks
\* of it, swallows the error and returns with nothing downloaded.
exit_production(r, o) ==
    IF o.net = "fails" \/ r.itag \notin AvailableItags
    THEN IF o.raises THEN "raise" ELSE "nofile"
    ELSE IF o.net = "no_file" THEN "nofile"
    ELSE "sent"

\* The exits that run shutil.rmtree(temp_dir, ignore_errors=True): the end
\* of the try block and its except clause; the early returns do not.
removes_dir(exit) == exit \in {"raise", "sent"}

\* str(e) of the exception that leaves the try block: the collaborator's
\* message, int()'s for an itag that is no number (app.py), or yt-dlp's for
\* a format it does not find (production.py).
raised(r, o) ==
    IF o.net = "fails" THEN o.msg
    ELSE IF variant = "app" THEN "invalid literal for int()"
    ELSE "Requested format is not available"

\* The collaborator is called and the handler runs to its response.
DownloadFetch(o) ==
    /\ dl_pc = "fetch"
    /\ LET exit == IF variant = "app" THEN exit_app(dl_req, o)
                   ELSE exit_production(dl_req, o)
           r == CASE exit = "raise" -> DlReply(500, D_download, raised(dl_req, o))
                  [] exit = "stream" -> DlReply(400, D_stream, "")
                  [] exit = "nofile" -> DlReply(500, D_nofile, "")
                  [] OTHER -> [status |-> 200, error |-> "", detail |-> "",
                               mimetype |-> mime_type(o.ext)]
       IN  /\ dl_resp' = r
           /\ temp_dirs' = IF removes_dir(exit)
                           THEN temp_dirs \ {dl_trace.dir} ELSE temp_dirs
           /\ dl_trace' = [dl_trace EXCEPT !.collab = TRUE,
                                           !.condition = condition(dl_req, o),
                                           !.read = (exit = "sent")]
           /\ dl_seen' = dl_seen \cup {Seen(condition(dl_req, o), r)}
    /\ dl_pc' = "done"
    /\ UNCHANGED <<dl_req, made_dirs, variant, world>>
    /\ UNCHANGED info_vars

\* The response is sent; the next request can arrive.
DownloadFinish ==
    /\ dl_pc = "done"
    /\ dl_pc' = "idle"
    /\ dl_req' = NoDlReq
    /\ dl_resp' = NoDlResp
    /\ dl_trace' = NoDlTrace
    /\ UNCHANGED <<temp_dirs, made_dirs, dl_seen, variant, world>>
    /\ UNCHANGED info_vars

(***************************************************************************)
(* The requests and the collaborator's answers of the model                *)
(***************************************************************************)
ID_A == <<"d","Q","w","4","w","9","W","g","X","c","Q">>
ID_B == <<"a","-","b","_","c","1","d","2","e","3","F">>
ID_dot == <<"d","Q","w","4","w","9","W","g","X","c",".">>
ID_plus == <<"d","Q","w","4","w","9","W","g","X","c","+">>
ID_short == <<"a","b","c">>
X_amp_t == <<"&","t","=","1","0">>
X_q_t == <<"?","t","=","1","0">>
X_feature == <<"&","f","e","a","t","u","r","e","=","y","o","u","t","u",".","b","e">>
X_q_share == <<"?","f","e","a","t","u","r","e","=","s","h","a","r","e">>
P_watch_params == <<"/","w","a","t","c","h","?","f","e","a","t","u","r","e","=","s","h","a","r","e","&","v","=">>
P_playlist == <<"/","p","l","a","y","l","i","s","t","?","l","i","s","t","=">>
L_example == <<"e","x","a","m","p","l","e",".","c","o","m">>
U_text == <<"n","o","t"," ","a"," ","u","r","l">>

\* The URL shapes: a name, the host and the path up to the video ID, and
\* whether extra query parameters follow the ID after "&" (the ID is itself
\* a query parameter) or after "?".
Shapes ==
    {[name |-> "watch", host |-> L_youtube_com, path |-> L_watch_v, more |-> "&"],
     [name |-> "watch", host |-> L_youtube_com, path |-> P_watch_params, more |-> "&"],
     [name |-> "shortened", host |-> L_youtu_be, path |-> <<"/">>, more |-> "?"],
     [name |-> "embed", host |-> L_youtube_com, path |-> L_embed, more |-> "?"],
     [name |-> "embed", host |-> L_nocookie, path |-> L_embed, more |-> "?"],
     [name |-> "shorts", host |-> L_youtube_com, path |-> L_shorts, more |-> "?"],
     [name |-> "v", host |-> L_youtube_com, path |-> L_v, more |-> "?"],
     [name |-> "playlist", host |-> L_youtube_com, path |-> P_playlist, more |-> "&"],
     [name |-> "foreign", host |-> L_example, path |-> L_watch_v, more |-> "&"]}

Schemes == {<<>>, L_https, L_http}
Subdomains == {<<>>, L_www, L_m}
VideoIds == {ID_A, ID_B, ID_dot, ID_plus, ID_short}
\* What follows the ID: nothing, extra query parameters, a slash.
Extras == {<<>>, X_amp_t, X_q_t, X_feature, X_q_share, <<"/">>}

\* A video ID as the data model has it: 11 characters of [A-Za-z0-9_-].
WellFormedId(vid) ==
    Len(vid) = 11 /\ \A i \in 1..Len(vid) : vid[i] \in IdChars3

UrlRequest(scheme, sub, shape, vid, extra) ==
    [kind |-> "url",
     url |-> scheme \o sub \o shape.host \o shape.path \o vid \o extra,
     shape |-> shape.name,
     vid |-> vid,
     \* a recognized shape of a well-formed ID, alone or with extra query
     \* parameters
     recognized |->
        /\ shape.name \in {"watch", "shortened", "embed", "shorts"}
        /\ WellFormedId(vid)
        /\ extra = <<>> \/ extra[1] = shape.more]

Plain(kind, url) ==
    [kind |-> kind, url |-> url, shape |-> "", vid |-> <<>>, recognized |-> FALSE]

\* The requests of the URL specification: every combination of the parts,
\* and the bodies without a usable URL.
UrlRequests ==
    {UrlRequest(c[1], c[2], c[3], c[4], c[5])
        : c \in Schemes \X Subdomains \X Shapes \X VideoIds \X Extras}
    \cup {Plain("not_json", <<>>), Plain("no_url", <<>>), Plain("non_string", <<>>),
          Plain("url", <<>>), Plain("url", <<" ", " ">>), Plain("url", U_text),
          Plain("url", <<" ">> \o L_youtu_be_slash \o ID_A \o <<" ">>)}

WatchShape == [name |-> "watch", host |-> L_youtube_com, path |-> L_watch_v, more |-> "&"]
ShortShape == [name |-> "shortened", host |-> L_youtu_be, path |-> <<"/">>, more |-> "?"]
EmbedShape == [name |-> "embed", host |-> L_youtube_com, path |-> L_embed, more |-> "?"]

\* The requests of the other specifications: two shapes of one video,
\* another video, and requests that are turned down.
FewRequests ==
    {UrlRequest(L_https, L_www, WatchShape, ID_A, <<>>),
     UrlRequest(L_https, <<>>, ShortShape, ID_A, X_q_t),
     UrlRequest(L_https, L_www, EmbedShape, ID_B, <<>>),
     UrlRequest(L_https, L_www, WatchShape, ID_A, X_feature),
     Plain("no_url", <<>>), Plain("url", U_text)}

OneVideoRequests ==
    {UrlRequest(L_https, L_www, WatchShape, ID_A, <<>>),
     UrlRequest(L_https, <<>>, ShortShape, ID_A, <<>>)}

Raw(vcodec, acodec, ext, height, format_id, abr, filesize) ==
    [vcodec |-> vcodec, acodec |-> acodec, ext |-> ext, height |-> height,
     format_id |-> format_id, abr |-> abr, filesize |-> filesize]

F1080 == Raw("avc1", "mp4a", "mp4", 1080, "37", 0, 52953088)
F480 == Raw("avc1", "mp4a", "mp4", 480, "35", 0, 0)
F360 == Raw("avc1", "mp4a", "mp4", 360, "18", 0, 9542041)
F360b == Raw("avc1", "mp4a", "mp4", 360, "134", 0, 9542041)
F144 == Raw("avc1", "mp4a", "mp4", 144, "17", 0, 1153434)
W360 == Raw("vp9", "opus", "webm", 360, "43", 0, 8000000)
A128 == Raw("none", "mp4a", "m4a", 0, "140", 128, 3355443)
A48 == Raw("none", "mp4a", "m4a", 0, "139", 48, 0)
A160w == Raw("none", "opus", "webm", 0, "251", 160, 4000000)

RawFormats == {F1080, F480, F360, F360b, F144, W360, A128, A48, A160w}

\* Length of the raw format lists of the formats specification.
MaxRaw == 3

RawLists == UNION {[1..n -> RawFormats] : n \in 0..MaxRaw}

Answer(kind, msg, title, raw) ==
    [kind |-> kind, msg |-> msg, title |-> title,
     thumbnail |-> "https://i.ytimg.com/vi/maxresdefault.jpg", raw |-> raw]

Raises == Answer("raise", "Video unavailable", "", <<>>)
ReturnsNone == Answer("none", "'NoneType' object has no attribute 'get'", "", <<>>)

\* Every answer over the raw format lists.
AllAnswers ==
    {Answer("ok", "", "Title", raw) : raw \in RawLists} \cup {Raises, ReturnsNone}

\* A few answers: failures, no format, and video_infos of different sizes.
FewAnswers ==
    {Raises, ReturnsNone,
     Answer("ok", "", "Title", <<W360>>),
     Answer("ok", "", "Title", <<F360>>),
     Answer("ok", "", "Title (remastered)", <<F360, F1080, A128>>)}

DlAnswer(net, raises, ext) ==
    [net |-> net, raises |-> raises, ext |-> ext, msg |-> "HTTP Error 403"]

DlAnswers ==
    {DlAnswer("fails", b, "") : b \in BOOLEAN}
    \cup {DlAnswer("no_file", b, "") : b \in BOOLEAN}
    \cup {DlAnswer("fine", b, e) : b \in BOOLEAN, e \in {"mp4", "webm", "m4a", "mkv"}}

A_WATCH == L_https \o L_www \o L_youtube_com \o L_watch_v \o ID_A

DlRequests ==
    {[url |-> u, itag |-> i]
        : u \in {None, <<>>, U_text, A_WATCH},
          i \in {None, <<>>, <<"1","8">>, <<"9","9","9">>, <<"a","b","c">>}}

(***************************************************************************)
(* Specifications                                                          *)
(***************************************************************************)
InitWith(w) ==
    /\ variant \in {"app", "production"}
    /\ world = w
    /\ pc = [t \in Threads |-> "idle"]
    /\ req = [t \in Threads |-> NoReq]
    /\ video_id = [t \in Threads |-> None]
    /\ answer = [t \in Threads |-> NoAnswer]
    /\ pending = [t \in Threads |-> NoInfo]
    /\ resp = [t \in Threads |-> NoResp]
    /\ trace = [t \in Threads |-> <<>>]
    /\ files = <<>>
    /\ stored = <<>>
    /\ now = 0
    /\ ticks = 0
    /\ dl_pc = "idle"
    /\ dl_req = NoDlReq
    /\ dl_resp = NoDlResp
    /\ dl_trace = NoDlTrace
    /\ temp_dirs = {}
    /\ made_dirs = 0
    /\ dl_seen = {}

\* get_video_info, one request after the other.
Init == InitWith(FewAnswers)

Next ==
    \/ \E r \in FewRequests : Request(1, r)
    \/ \E o \in world : Resolve(1, o)
    \/ CacheOpen(1)
    \/ CacheWrite(1)
    \/ Finish(1)
    \/ \E d \in {1, CACHE_DURATION - 1} : Tick(d)

Spec == Init /\ [][Next]_vars

\* get_video_info on every URL of the model; the collaborator fails.
InitUrl == InitWith({Raises})

NextUrl ==
    \/ \E r \in UrlRequests : Request(1, r)
    \/ \E o \in world : Resolve(1, o)
    \/ Finish(1)

SpecUrl == InitUrl /\ [][NextUrl]_vars

\* get_video_info on one video, for each answer of the collaborator.
InitFormats == \E o \in AllAnswers : InitWith({o})

NextFormats ==
    \/ \E r \in OneVideoRequests : Request(1, r)
    \/ \E o \in world : Resolve(1, o)
    \/ CacheOpen(1)
    \/ CacheWrite(1)
    \/ Finish(1)

SpecFormats == InitFormats /\ [][NextFormats]_vars

\* get_video_info, two requests at a time.
InitConc == InitWith(FewAnswers)

NextConc ==
    \/ \E t \in Threads :
        \/ \E r \in OneVideoRequests : Request(t, r)
        \/ \E o \in world : Resolve(t, o)
        \/ CacheOpen(t)
        \/ CacheWrite(t)
        \/ Finish(t)
    \/ Tick(CACHE_DURATION)

SpecConc == InitConc /\ [][NextConc]_vars

\* get_video_info, one request after the other, with a cache whose reads
\* and writes fail.
InitFaults == InitWith(FewAnswers)

NextFaults ==
    \/ \E r \in OneVideoRequests : Request(1, r)
    \/ \E o \in world : Resolve(1, o)
    \/ CacheOpen(1)
    \/ CacheWrite(1)
    \/ CacheOpenFails(1)
    \/ \E n \in {0, 1, 12, 30} : CacheWriteFails(1, n)
    \/ Finish(1)
    \/ \E cache_file \in DOMAIN files, d \in Damages : Damage(cache_file, d)
    \/ Tick(CACHE_DURATION - 1)

SpecFaults == InitFaults /\ [][NextFaults]_vars

\* download, one request after the other.
InitDownload == InitWith({})

NextDownload ==
    \/ \E r \in DlRequests : DownloadStart(r)
    \/ \E o \in DlAnswers : DownloadFetch(o)
    \/ DownloadFinish

SpecDownload == InitDownload /\ [][NextDownload]_vars

(***************************************************************************)
(* Claims about GET /download (SpecDownload)                               *)
(***************************************************************************)
\* C1: once a request's temporary directory has been made it is removed on
\* every exit path before the response is produced, so that whenever no
\* download is in progress no temporary directory exists.
C1_NoTempDirRemains ==
    dl_pc \in {"idle", "done"} => temp_dirs = {}

\* C6: missing or empty parameters and an invalid URL give 400 with no
\* temporary directory and no collaborator call; a collaborator failure and
\* a missing file give 500; 200 is sent only when a downloaded file was found
\* and read; and the failure conditions each have an error outcome of their
\* own: no two of them were ever answered with the same status and message.
C6_DistinctFailures ==
    /\ dl_pc = "done" =>
        /\ dl_trace.condition \in {"missing", "invalid_url"} =>
            dl_resp.status = 400 /\ dl_trace.dir = 0 /\ ~dl_trace.collab
        /\ dl_trace.condition \in {"download_failure", "file_missing"} =>
            dl_resp.status = 500
        /\ dl_resp.status = 200 => dl_trace.read /\ dl_trace.condition = "ok"
    /\ \A a, b \in dl_seen :
        a.condition # b.condition =>
            <<a.status, a.error, a.detail>> # <<b.status, b.error, b.detail>>

(***************************************************************************)
(* Claims about the cache (Spec)                                           *)
(***************************************************************************)
Absent == [found |-> FALSE, info |-> NoInfo]
Present(info) == [found |-> TRUE, info |-> info]

\* C2: after cache_info(key, info) has completed, get_cached_info(key)
\* returns info unchanged as long as less than 3600 s have passed since the
\* entry's timestamp (immediately after the store in particular), and
\* returns absent once 3600 s or more have passed, exactly 3600 s included.
C2_CacheRoundTrip ==
    \A key \in DOMAIN stored :
        get_cached_info(files, key, now) =
            IF now - stored[key].timestamp < 3600
            THEN Present(stored[key].info)
            ELSE Absent

\* An entry read back right after it was stored, while another entry is
\* exactly 3600 s old and absent.
C2_StoredAndExpired ==
    /\ pc[1] = "done"
    /\ resp[1].status = 200
    /\ trace[1] = <<"validate", "extract", "lookup", "collab", "store">>
    /\ stored[cache_key(1)].timestamp = now
    /\ get_cached_info(files, cache_key(1), now) = Present(resp[1].body)
    /\ \E key \in DOMAIN stored :
        /\ now - stored[key].timestamp = 3600
        /\ get_cached_info(files, key, now) = Absent

(***************************************************************************)
(* Claims about URL validation and ID extraction (SpecUrl)                 *)
(***************************************************************************)
\* The request of thread 1 passed is_valid_youtube_url and went on to
\* extract_video_id.
Validated == pc[1] # "idle" /\ Len(trace[1]) >= 2 /\ trace[1][2] = "extract"

\* The request of thread 1 was accepted: its video ID made the canonical
\* URL and the cache key.
Accepted == pc[1] # "idle" /\ Len(trace[1]) >= 3 /\ trace[1][3] = "lookup"

\* C3: for every URL of a recognized shape (watch, shortened, embed, shorts,
\* alone or with extra query parameters) built around an 11-character video
\* ID and accepted by is_valid_youtube_url, extract_video_id returns that
\* ID.
C3_SameIdForAllShapes ==
    (Validated /\ req[1].recognized) => video_id[1] = req[1].vid

\* C4: every video ID that get_video_info accepts and uses for the canonical
\* URL, the cache key and the collaborator has exactly 11 characters, all of
\* [A-Za-z0-9_-].
C4_AcceptedIdWellFormed ==
    Accepted => WellFormedId(video_id[1])

\* The url of the request, as far as it is one: missing, null or not a
\* string, empty after trimming, or matching neither pattern.
C5_NoValidUrl(r) ==
    \/ r.kind \in {"no_url", "non_string"}
    \/ /\ r.kind = "url"
       /\ \/ Strip(r.url) = <<>>
          \/ ~youtube_regex(Strip(r.url)) /\ ~youtu_be_regex(Strip(r.url))

\* What C5 asks of the response to such a request: 400, before any ID
\* extraction, cache lookup or collaborator call.
C5_Rejected ==
    /\ resp[1].status = 400
    /\ \A i \in 1..Len(trace[1]) : trace[1][i] \notin {"extract", "lookup", "collab"}

\* C5: a request whose url is missing, empty after trimming or no valid
\* YouTube URL is answered 400 before any ID extraction, cache lookup or
\* collaborator call, and never 500.
C5_InvalidInputIs400 ==
    (pc[1] = "done" /\ C5_NoValidUrl(req[1])) => C5_Rejected

\* The part of C5 that the code keeps: the same for the requests whose url
\* is missing or is a string.
C5_StringUrlIs400 ==
    (pc[1] = "done" /\ C5_NoValidUrl(req[1]) /\ req[1].kind # "non_string")
        => C5_Rejected

(***************************************************************************)
(* Claims about the formats list (SpecFormats)                             *)
(***************************************************************************)
\* The place of a resolution label in the priority order of the data model:
\* 1080p first, 240p last of the recognized labels, any other label after
\* them.
C7_Rank(q) ==
    CASE q = "1080p" -> 1 [] q = "720p" -> 2 [] q = "480p" -> 3
      [] q = "360p" -> 4 [] q = "240p" -> 5 [] OTHER -> 6

C7_Ordered(formats) ==
    /\ \A i, j \in 1..Len(formats) :
        (i < j /\ formats[i].type = "video" /\ formats[j].type = "video") =>
            /\ C7_Rank(formats[i].quality) < C7_Rank(formats[j].quality)
            /\ formats[i].quality # formats[j].quality
    /\ Cardinality({i \in 1..Len(formats) : formats[i].type = "audio"}) <= 1
    /\ \A i \in 1..Len(formats) : formats[i].type = "audio" => i = Len(formats)

\* C7: in every VideoInfo answered with status 200, freshly resolved or
\* served from the cache, the video entries are in descending priority
\* order 1080p > 720p > 480p > 360p > 240p, no two of them share a label,
\* there is at most one audio entry, and an audio entry is the last element.
C7_FormatsOrdered ==
    \A t \in Threads : resp[t].status = 200 => C7_Ordered(resp[t].body.formats)

\* A VideoInfo served from the cache whose raw list had the audio entry
\* first and the lower resolution before the higher.
C7_CachedUnsortedInput ==
    /\ pc[1] = "done"
    /\ resp[1].status = 200
    /\ trace[1] = <<"validate", "extract", "lookup">>
    /\ world = {Answer("ok", "", "Title", <<A128, F360, F1080>>)}
    /\ Len(resp[1].body.formats) = 3
    /\ resp[1].body.formats[1].quality = "1080p"
    /\ resp[1].body.formats[2].quality = "360p"
    /\ resp[1].body.formats[3].type = "audio"

(***************************************************************************)
(* Claims about resolution and the cache-first control flow (Spec)         *)
(***************************************************************************)
\* The collaborator's answer o is a failed resolution: it is an error, or
\* no format of it survives the filter.
C8_Fails(o) == o.kind # "ok" \/ resolve_formats(variant, o.raw) = <<>>

C8_Step ==
    /\ \A t \in Threads :
        (pc[t] = "resolve" /\ pc'[t] # "resolve" /\ C8_Fails(answer'[t])) =>
            /\ pc'[t] = "done"
            /\ resp'[t].status = 400
            /\ resp'[t].error # ""
            /\ IF answer'[t].kind # "ok"
               THEN resp'[t].error = E_youtube /\ resp'[t].detail = answer'[t].msg
               ELSE resp'[t].error = E_no_formats /\ E_no_formats # E_youtube
            /\ files' = files
            /\ \A i \in 1..Len(trace'[t]) : trace'[t][i] # "store"
    /\ files' # files =>
        \E t \in Threads :
            /\ pc[t] \in {"cache_open", "cache_write"}
            /\ answer[t].kind = "ok"
            /\ resolve_formats(variant, answer[t].raw) # <<>>
            /\ pending[t].formats = resolve_formats(variant, answer[t].raw)

\* C8: when the collaborator raises or zero formats survive the filter, the
\* handler answers 400 with an error message (the collaborator's message, or
\* the 'no downloadable formats' message, which is another one) and leaves
\* the cache as it was; the cache changes only in cache_info, called after a
\* resolution that produced at least one format.
C8_FailureLeavesCache == [][C8_Step]_vars

\* Zero formats survived for a video whose expired entry is still in the
\* cache, untouched.
C8_NoFormatsEntryKept ==
    /\ pc[1] = "done"
    /\ answer[1].kind = "ok"
    /\ resp[1] = Reply(400, E_no_formats, "")
    /\ cache_key(1) \in DOMAIN stored
    /\ files[cache_key(1)] =
            json_dump(stored[cache_key(1)].info, stored[cache_key(1)].timestamp)

(***************************************************************************)
(* Claims about concurrent requests (SpecConc)                             *)
(***************************************************************************)
\* Both threads have resolved the same video and written it to the cache.
C9_BothWrote ==
    /\ \A t \in Threads :
        /\ pc[t] = "done"
        /\ trace[t] = <<"validate", "extract", "lookup", "collab", "store">>
    /\ cache_key(1) = cache_key(2)

\* C9: after two concurrent requests for one video have both missed, both
\* called the collaborator and both written, the cache entry holds exactly
\* the VideoInfo and timestamp of the write that finished last, whatever the
\* interleaving of their cache steps, and a lookup within the window returns
\* that VideoInfo.
C9_LastWriteWins ==
    C9_BothWrote =>
        LET key == cache_key(1)
            last == stored[key]
        IN  /\ files[key] = json_dump(last.info, last.timestamp)
            /\ now - last.timestamp < 3600 =>
                get_cached_info(files, key, now) = Present(last.info)

\* Both threads wrote, one after the other opened: the case of the claim.
C9_BothWroteReached == C9_BothWrote /\ resp[1].body # resp[2].body

(***************************************************************************)
(* Claims about the cache-first control flow (Spec)                        *)
(***************************************************************************)
\* The events of a request in their order: the lookup comes before the
\* collaborator, the store after it, and a 200 response to a resolved
\* request comes after the entry was written.
C10_State ==
    pc[1] # "idle" =>
        /\ \A i \in 1..Len(trace[1]) :
            /\ trace[1][i] = "collab" => (i = 4 /\ trace[1][3] = "lookup")
            /\ trace[1][i] = "store" => (i = 5 /\ trace[1][4] = "collab")
        /\ (resp[1].status = 200 /\ Len(trace[1]) > 3) =>
            /\ trace[1] = <<"validate", "extract", "lookup", "collab", "store">>
            /\ stored[cache_key(1)].info = resp[1].body
            /\ stored[cache_key(1)].timestamp <= now
            /\ files[cache_key(1)] =
                    json_dump(resp[1].body, stored[cache_key(1)].timestamp)

\* A request with an accepted video ID arrives: with a stored entry younger
\* than 3600 s it is answered from the cache, the collaborator not called
\* and the cache not written; otherwise it goes on to the collaborator.
C10_Step ==
    (pc[1] = "idle" /\ Len(trace'[1]) >= 3) =>
        LET key == get_cache_key(clean_url(video_id'[1]))
        IN  IF key \in DOMAIN stored /\ now - stored[key].timestamp < 3600
            THEN /\ pc'[1] = "done"
                 /\ resp'[1] = Ok(stored[key].info)
                 /\ trace'[1] = <<"validate", "extract", "lookup">>
                 /\ files' = files
            ELSE /\ pc'[1] = "resolve"
                 /\ trace'[1] = <<"validate", "extract", "lookup">>

\* C10: for a valid URL the cache is checked before the collaborator is
\* called; a fresh entry (age < 3600 s) for the canonical URL is returned
\* without calling the collaborator or writing the cache; the collaborator
\* is called only after a miss; and a successful resolution is written to
\* the cache before the 200 response, so that a second request for the video
\* within the window is served from the cache.
C10_CacheFirst == []C10_State /\ [][C10_Step]_vars

\* A second request for a video served from the cache 3599 s after the
\* first one stored it.
C10_ServedFromCache ==
    /\ pc[1] = "done"
    /\ trace[1] = <<"validate", "extract", "lookup">>
    /\ now - stored[cache_key(1)].timestamp = 3599
    /\ resp[1] = Ok(stored[cache_key(1)].info)

(***************************************************************************)
(* Claims about the selection of formats (SpecFormats)                     *)
(***************************************************************************)
\* Thread 1 has answered 200 with the formats it resolved from the
\* collaborator's answer.
Resolved ==
    /\ pc[1] = "done"
    /\ resp[1].status = 200
    /\ answer[1].kind = "ok"

\* An audio-only entry of a compatible container (mp4 or m4a).
C11_CompatibleAudio(f) ==
    f.vcodec = "none" /\ f.acodec # "none" /\ f.ext \in {"mp4", "m4a"}

\* C11: the audio entry the resolver appends is the highest-bitrate
\* audio-only entry of a compatible container among all the audio-only
\* entries the collaborator returned, in whatever order it lists them.
C11_BestAudio ==
    Resolved =>
        LET raw == answer[1].raw
            formats == resp[1].body.formats
        IN  \A i \in 1..Len(formats) :
                formats[i].type = "audio" =>
                    \E k \in 1..Len(raw) :
                        /\ C11_CompatibleAudio(raw[k])
                        /\ raw[k].format_id = formats[i].format_id
                        /\ \A j \in 1..Len(raw) :
                            C11_CompatibleAudio(raw[j]) => raw[j].abr <= raw[k].abr

\* An audio entry was appended for a raw list with several audio-only
\* entries.
C11_AudioAppended ==
    /\ Resolved
    /\ resp[1].body.formats[Len(resp[1].body.formats)].type = "audio"
    /\ Cardinality({k \in 1..Len(answer[1].raw) : answer[1].raw[k].vcodec = "none"}) >= 2

\* A progressive entry (both tracks) in the one container the resolver
\* selects, with a resolution.
C12_Progressive(f) ==
    f.vcodec # "none" /\ f.acodec # "none" /\ f.ext = "mp4" /\ f.height > 0

C12_Recognized == {"1080p", "720p", "480p", "360p", "240p"}

\* The resolution labels of the video entries of a formats list, in order.
C12_VideoLabels(formats) ==
    LET video == SelectSeq(formats, LAMBDA f : f.type = "video")
    IN  [i \in 1..Len(video) |-> video[i].quality]

\* The labels of the progressive entries of a raw list.
C12_RawLabels(raw) ==
    {ResolutionLabel(raw[k].height) : k \in {j \in 1..Len(raw) : C12_Progressive(raw[j])}}

\* C12 as stated: a progressive entry with a label outside the priority list
\* (144p), given alongside recognized labels, is in the output as a video
\* entry placed after all the video entries of recognized labels.
C12_UnrecognizedSortsLast ==
    Resolved =>
        LET labels == C12_VideoLabels(resp[1].body.formats)
        IN  \A q \in C12_RawLabels(answer[1].raw) \ C12_Recognized :
                \E i \in 1..Len(labels) :
                    /\ labels[i] = q
                    /\ \A j \in 1..Len(labels) :
                        labels[j] \in C12_Recognized => j < i

\* C12, amended: the output has a video entry for exactly the recognized
\* labels among the raw progressive entries, in the priority order (360p,
\* 1080p, 480p give [1080p, 480p, 360p]); an entry with a label outside the
\* priority list (144p) is left out of the output, not sorted last.
C12_RecognizedInOrderOthersDropped ==
    Resolved =>
        LET labels == C12_VideoLabels(resp[1].body.formats)
        IN  /\ {labels[i] : i \in 1..Len(labels)} =
                    C12_RawLabels(answer[1].raw) \cap C12_Recognized
            /\ \A i, j \in 1..Len(labels) :
                i < j => C7_Rank(labels[i]) < C7_Rank(labels[j])
            /\ C12_RawLabels(answer[1].raw) = {"360p", "1080p", "480p"} =>
                labels = <<"1080p", "480p", "360p">>

\* A 144p entry listed first, alongside 360p and 1080p: the output has the
\* two recognized labels only.
C12_With144p ==
    /\ Resolved
    /\ answer[1].raw = <<F144, F360, F1080>>
    /\ C12_VideoLabels(resp[1].body.formats) = <<"1080p", "360p">>

(***************************************************************************)
(* Claims about failures of the cache's I/O (SpecFaults)                   *)
(***************************************************************************)
\* The response the collaborator's answer o alone determines.
C13_Resolved(v, o) ==
    IF o.kind # "ok" THEN Reply(400, E_youtube, o.msg)
    ELSE IF resolve_formats(v, o.raw) = <<>> THEN Reply(400, E_no_formats, "")
    ELSE Ok([title |-> o.title, thumbnail |-> o.thumbnail,
             formats |-> resolve_formats(v, o.raw)])

C13_Did(e) == \E i \in DOMAIN trace[1] : trace[1][i] = e

\* The cache file of the key holds exactly what the last completed
\* cache_info call for the key wrote.
C13_Intact(fs, key) ==
    /\ key \in DOMAIN fs
    /\ key \in DOMAIN stored
    /\ fs[key] = json_dump(stored[key].info, stored[key].timestamp)

\* A request past the lookup ends with the response its collaborator's
\* answer determines, whatever happened to the cache, or, answered from
\* the cache, with 200 and an entry a cache_info call completed.
C13_State ==
    (pc[1] = "done" /\ C13_Did("lookup")) =>
        IF C13_Did("collab")
        THEN /\ resp[1] = C13_Resolved(variant, answer[1])
             /\ C13_Did("store") \/ C13_Did("store_failed")
                    <=> resp[1].status = 200
        ELSE /\ resp[1].status = 200
             /\ cache_key(1) \in DOMAIN stored
             /\ resp[1].body = stored[cache_key(1)].info

\* A lookup that meets no file, or a file that is not what a completed
\* cache_info call wrote, sends the request on to the collaborator with no
\* response; a cache_info call that fails leaves the request with its
\* video_info as a 200 response.
C13_Step ==
    /\ (pc[1] = "idle" /\ trace'[1] = <<"validate", "extract", "lookup">>
            /\ ~C13_Intact(files, get_cache_key(clean_url(video_id'[1]))))
        => (pc'[1] = "resolve" /\ resp'[1] = NoResp)
    /\ (pc[1] \in {"cache_open", "cache_write"}
            /\ trace'[1] = Append(trace[1], "store_failed"))
        => (pc'[1] = "done" /\ resp'[1] = Ok(pending[1]))

\* C13: the cache is advisory and never fatal: a failure to read or parse a
\* cache record makes get_cached_info return absent, so the request goes on
\* to the collaborator; a failure of cache_info to persist is swallowed, so
\* a request whose resolution succeeded still gets its 200 response; no
\* cache I/O failure changes a response's status or makes an error response.
C13_CacheNeverFatal == []C13_State /\ [][C13_Step]_vars

\* A request answered 200 from the collaborator after cache_info failed,
\* while a completed entry for its key was fresh: its lookup met a file
\* that was removed or could not be read or parsed.
C13_ResolvedDespiteFailures ==
    /\ pc[1] = "done"
    /\ resp[1].status = 200
    /\ trace[1] = <<"validate", "extract", "lookup", "collab", "store_failed">>
    /\ cache_key(1) \in DOMAIN stored
    /\ is_fresh(stored[cache_key(1)].timestamp, now)
    /\ cache_key(1) \in DOMAIN files
    /\ ~json_valid(files[cache_key(1)])

(***************************************************************************)
(* Claims about lookups during writes (SpecConc)                           *)
(***************************************************************************)
\* The lookup result c for the key is absent, or the video_info of the
\* last completed cache_info call for the key.
C14_AbsentOrComplete(c, key) ==
    c.found => (key \in DOMAIN stored /\ c.info = stored[key].info)

\* A get_cached_info that runs in the current state, for every cache file.
C14_State ==
    \A key \in DOMAIN files :
        C14_AbsentOrComplete(get_cached_info(files, key, now), key)

\* A get_cached_info whose reads of the file straddle the step, and the
\* lookup of a request that arrives: no error response, and a response from
\* the cache is a complete video_info.
C14_Step ==
    /\ \A key \in DOMAIN files \cap DOMAIN files' :
        C14_AbsentOrComplete(
            get_cached_info(
                WriteFile(files', key, read_across(files[key], files'[key])),
                key, now'),
            key)
    /\ \A t \in Threads :
        (pc[t] = "idle" /\ trace'[t] = <<"validate", "extract", "lookup">>) =>
            \/ pc'[t] = "resolve" /\ resp'[t] = NoResp
            \/ /\ pc'[t] = "done"
               /\ C14_AbsentOrComplete(Present(resp'[t].body),
                                       get_cache_key(clean_url(video_id'[t])))
               /\ resp'[t] = Ok(resp'[t].body)

\* C14: a get_cached_info that interleaves with one or more in-progress
\* cache_info writes to the same key (the file truncated on open, the
\* content written afterwards, no lock, no atomic rename) returns absent or
\* a complete VideoInfo some cache_info call was given for that key; it
\* never returns a partial or mixed value and never raises.
C14_LookupDuringWrites == []C14_State /\ [][C14_Step]_vars

\* Thread 1 is inside cache_info: it has truncated the file of the entry
\* thread 2 completed for the same key and has not written yet; the entry is
\* fresh, and a lookup at this moment finds the empty file.
C14_WritesInProgress ==
    /\ pc[1] = "cache_write"
    /\ pc[2] = "done"
    /\ trace[2] = <<"validate", "extract", "lookup", "collab", "store">>
    /\ cache_key(1) = cache_key(2)
    /\ is_fresh(stored[cache_key(1)].timestamp, now)
    /\ stored[cache_key(1)].info = resp[2].body
    /\ files[cache_key(1)] = <<>>
    /\ get_cached_info(files, cache_key(1), now) = Absent

====
